---- MODULE Spec2Model ----
(***************************************************************************)
(* A model of python-lastfm's entity layer (lastfm/user.py,                *)
(* lastfm/venue.py) and of the three mechanisms it is built on: the        *)
(* identity registry (LastfmBase), cached / authenticated properties       *)
(* (lastfm.decorators) and lazy depagination (lastfm.lazylist).            *)
(*                                                                         *)
(* One specification per mechanism:                                        *)
(*   SpecReg    entity construction through the registry                   *)
(*   SpecLife   a User that is constructed again, read and mutated         *)
(*   SpecBuild  constructions that start inside the init() of another      *)
(*   SpecRace   two callers of the registry and of a cached property       *)
(*   SpecCmp    comparison of two entities                                 *)
(*   SpecCache  cached properties of a User and its Library, mutations     *)
(*   SpecAuth   session-gated operations of a User                         *)
(*   SpecTop    collections of a User and their top-item accessors         *)
(*   SpecMut    the five session-gated mutations                           *)
(*   SpecChart  a cached property whose body may return None               *)
(*   SpecPage   one lazy list of past events (Venue, User)                 *)
(*   SpecDrain  one lazy list of past events, consumed to its end          *)
(*   SpecScope  listings of an entity whose name or id may be missing      *)
(*   SpecLib    one lazy list of a Library listing                         *)
(*   SpecWeekly one lazy list of weekly charts                             *)
(***************************************************************************)
EXTENDS Integers, Sequences, FiniteSets, TLC

VARIABLES
    \* ---- registry (SpecReg)
    registry,   \* class -> set of [key, inst]: LastfmBase's registry
    objs,       \* instance number -> the fields init() stored
    calls,      \* class -> set of [kwds, res]: every construction made so far
    ncalls,     \* number of constructions made so far
    cmp,        \* the entities compared (SpecCmp), and what came of it
    ctl,        \* the constructions in progress (SpecBuild, SpecRace)
    \* ---- cached properties (SpecCache, SpecAuth)
    cache,      \* property -> the attribute "_<property>" of its owner
    srv,        \* property -> version of the listing the server holds
    session,    \* whether the Api holds an authenticated session
    ncomp,      \* property -> successful computes since it was last unset
    cval,       \* property -> the value its last successful compute returned
    pending,    \* property -> why its next read has to compute
    held,       \* property -> pages fetched so far through its cached lazy list
    last,       \* the last operation and what its caller observed
    \* ---- one lazy list of Venue.get_past_events (SpecPage)
    pages,      \* what the server holds: total pages, page sizes, failing page
    gen,        \* where the generator gen() of the list is suspended
    lst,        \* the elements the lazy list has cached
    reqs,       \* the page numbers fetched so far, in order
    yielded,    \* the number of elements the generator has yielded so far
    plast       \* the last access to the list and what its caller observed

regVars == <<registry, objs, calls, ncalls, cmp, ctl>>

cacheVars == <<cache, srv, session, ncomp, cval, pending, held, last>>

pageVars == <<pages, gen, lst, reqs, yielded, plast>>

vars == <<registry, objs, calls, ncalls, cmp, ctl,
          cache, srv, session, ncomp, cval, pending, held, last,
          pages, gen, lst, reqs, yielded, plast>>

(***************************************************************************)
(* Python values.  A value is [none, v]: None is [none |-> TRUE], and v    *)
(* is a string (names, urls) or an integer (playlist ids).  Values of      *)
(* different classes are never compared with each other.                   *)
(***************************************************************************)
Classes == {"User", "Venue", "Playlist"}

Names == {"alice", "bob"}
Urls == {"http://last.fm/venue/1", "http://last.fm/venue/2"}
PlaylistIds == {-2, -1, 1}

Blank(cls) == IF cls = "Playlist" THEN 0 ELSE ""

PyNone(cls) == [none |-> TRUE, v |-> Blank(cls)]

PyVal(x) == [none |-> FALSE, v |-> x]

IdValues(cls) ==
    CASE cls = "User" -> Names
      [] cls = "Venue" -> Urls
      [] cls = "Playlist" -> PlaylistIds

\* A keyword argument that is no part of the identity (real_name of a User,
\* name of a Venue, title of a Playlist).
Others == {"first", "second"}

\* The keyword arguments of a construction: whether the identity keyword
\* (name, url, id) is among them, its value, and one other keyword.
KwdsWith(cls, others) ==
    {[has |-> FALSE, val |-> PyNone(cls), other |-> o] : o \in others}
      \cup {[has |-> TRUE, val |-> PyNone(cls), other |-> o] : o \in others}
      \cup {[has |-> TRUE, val |-> PyVal(x), other |-> o] :
                 x \in IdValues(cls), o \in others}

\* The constructions that differ in the identity keyword only.
Kwds(cls) == KwdsWith(cls, {"first"})

(***************************************************************************)
(* hash().  CPython's hash of an int is the int itself, except that -1 is  *)
(* reserved for errors and hashes to -2.  The hash of a str is given for   *)
(* the strings of the model by the values CPython 2 (64 bit) computes,     *)
(* written in decimal.  hash(None) is derived from the address of None;    *)
(* it is kept apart as a value of its own kind.                            *)
(***************************************************************************)
IntHash(n) == IF n = -1 THEN -2 ELSE n

StrHash(s) ==
    CASE s = "alice" -> "2709262584577918573"
      [] s = "bob" -> "327024216816240890"
      [] s = "http://last.fm/venue/1" -> "-4195476477837029525"
      [] s = "http://last.fm/venue/2" -> "-4195476477837029528"
      [] OTHER -> "0"

PyHash(cls, x) ==
    IF x.none THEN [kind |-> "NoneType", h |-> Blank(cls)]
    ELSE IF cls = "Playlist" THEN [kind |-> "int", h |-> IntHash(x.v)]
    ELSE [kind |-> "str", h |-> StrHash(x.v)]

\* The result of a _hash_func: a key, or InvalidParametersError.
Raised(cls) == [err |-> TRUE, key |-> PyHash(cls, PyNone(cls))]

Hashed(k) == [err |-> FALSE, key |-> k]

\* User._hash_func: hash(kwds['name']); a KeyError becomes
\* InvalidParametersError.
User_hash_func(kwds) ==
    IF kwds.has THEN Hashed(PyHash("User", kwds.val)) ELSE Raised("User")

\* Venue._hash_func: hash(kwds['url']).
Venue_hash_func(kwds) ==
    IF kwds.has THEN Hashed(PyHash("Venue", kwds.val)) ELSE Raised("Venue")

\* User.Playlist._hash_func: hash(kwds['id']).
Playlist_hash_func(kwds) ==
    IF kwds.has THEN Hashed(PyHash("Playlist", kwds.val)) ELSE Raised("Playlist")

HashFunc(cls, kwds) ==
    CASE cls = "User" -> User_hash_func(kwds)
      [] cls = "Venue" -> Venue_hash_func(kwds)
      [] cls = "Playlist" -> Playlist_hash_func(kwds)

(***************************************************************************)
(* The registry: one instance per (class, key).                            *)
(***************************************************************************)
MaxCalls == 4

\* Result 0 of a construction: InvalidParametersError was raised.
InvalidParameters == 0

Registered(cls, key) == {e \in registry[cls] : e.key = key}

\* init() of the three classes stores the fields it was given.
EntityInit(cls, kwds) == [cls |-> cls, idval |-> kwds.val, other |-> kwds.other]

\* LastfmBase.__new__: compute the key, return the registered instance or
\* register a new one and run its init().
Construct(cls, kwds) ==
    /\ ncalls < MaxCalls
    /\ ncalls' = ncalls + 1
    /\ UNCHANGED <<cmp, ctl>>
    /\ UNCHANGED <<cacheVars, pageVars>>
    /\ LET h == HashFunc(cls, kwds) IN
         IF h.err
         THEN /\ calls' = [calls EXCEPT ![cls] = @ \cup
                              {[kwds |-> kwds, res |-> InvalidParameters]}]
              /\ UNCHANGED <<registry, objs>>
         ELSE IF Registered(cls, h.key) # {}
         THEN /\ calls' = [calls EXCEPT ![cls] = @ \cup
                   {[kwds |-> kwds, res |-> e.inst] : e \in Registered(cls, h.key)}]
              /\ UNCHANGED <<registry, objs>>
         ELSE LET inst == Len(objs) + 1 IN
              /\ registry' = [registry EXCEPT ![cls] = @ \cup
                                 {[key |-> h.key, inst |-> inst]}]
              /\ objs' = Append(objs, EntityInit(cls, kwds))
              /\ calls' = [calls EXCEPT ![cls] = @ \cup
                              {[kwds |-> kwds, res |-> inst]}]

NewUser == \E k \in Kwds("User") : Construct("User", k)

NewVenue == \E k \in Kwds("Venue") : Construct("Venue", k)

NewPlaylist == \E k \in Kwds("Playlist") : Construct("Playlist", k)

RegIdle ==
    /\ registry = [c \in Classes |-> {}]
    /\ objs = <<>>
    /\ calls = [c \in Classes |-> {}]
    /\ ncalls = 0
    /\ cmp = <<>>
    /\ ctl = <<>>

CacheIdle ==
    /\ cache = <<>>
    /\ srv = <<>>
    /\ session = FALSE
    /\ ncomp = <<>>
    /\ cval = <<>>
    /\ pending = <<>>
    /\ held = <<>>
    /\ last = <<>>

PageIdle ==
    /\ pages = <<>>
    /\ gen = <<>>
    /\ lst = <<>>
    /\ reqs = <<>>
    /\ yielded = 0
    /\ plast = <<>>

InitReg == RegIdle /\ CacheIdle /\ PageIdle

NextReg == NewUser \/ NewVenue \/ NewPlaylist

SpecReg == InitReg /\ [][NextReg]_vars

(***************************************************************************)
(* Claims about the registry (checked under SpecReg).                      *)
(***************************************************************************)
Returned(c) == {a \in calls[c] : a.res # InvalidParameters}

\* C1: any two constructions of one class that returned an instance returned
\* the same instance if their identity fields are equal, and distinct
\* instances if their identity fields are unequal.
IdentityUniqueness ==
    \A c \in Classes : \A a, b \in Returned(c) :
        (a.kwds.val = b.kwds.val) <=> (a.res = b.res)

\* C2: a construction whose identity field is missing (the keyword is not
\* supplied, or it is supplied as None) raises InvalidParametersError, and no
\* instance is ever registered under the hash of None.
MissingIdentityRejected ==
    \A c \in Classes :
        /\ \A a \in calls[c] :
              (~a.kwds.has \/ a.kwds.val.none) => a.res = InvalidParameters
        /\ \A e \in registry[c] : e.key.kind # "NoneType"

(***************************************************************************)
(* Comparison.  An entity is [cls, name, url]: a User is identified by     *)
(* its name, a Venue by its url.  (a, b) and (c, d) are the entities       *)
(* compared in two runs of the program; in one run the registry holds one  *)
(* instance for an identity, so that entities of equal identity are one    *)
(* and the same.                                                           *)
(***************************************************************************)
VenueNames == {"Apollo", "Zenith"}

UserUrls == {"http://last.fm/user/1", "http://last.fm/user/2"}

Entities(cls) ==
    [cls : {cls},
     name : IF cls = "User" THEN Names ELSE VenueNames,
     url : IF cls = "Venue" THEN Urls ELSE UserUrls]

\* The strings of the model in the order Python's < on str puts them.
Sorted ==
    <<"Apollo", "Zenith", "alice", "bob",
      "http://last.fm/user/1", "http://last.fm/user/2",
      "http://last.fm/venue/1", "http://last.fm/venue/2">>

StrLess(x, y) ==
    LET rank(z) == CHOOSE i \in 1..Len(Sorted) : Sorted[i] = z
    IN  rank(x) < rank(y)

\* User.__eq__, User.__lt__
User_eq(self, other) == self.name = other.name

User_lt(self, other) == StrLess(self.name, other.name)

\* Venue.__eq__, Venue.__lt__
Venue_eq(self, other) == self.url = other.url

Venue_lt(self, other) == StrLess(self.name, other.name)

Eq(x, y) == IF x.cls = "User" THEN User_eq(x, y) ELSE Venue_eq(x, y)

Lt(x, y) == IF x.cls = "User" THEN User_lt(x, y) ELSE Venue_lt(x, y)

\* The identity field: what _hash_func hashes.
IdentityOf(x) == IF x.cls = "User" THEN x.name ELSE x.url

Compare(op) ==
    /\ cmp' = [cmp EXCEPT !.op = op,
                  !.ab = IF op = "eq" THEN Eq(cmp.a, cmp.b)
                         ELSE Lt(cmp.a, cmp.b),
                  !.cd = IF op = "eq" THEN Eq(cmp.c, cmp.d)
                         ELSE Lt(cmp.c, cmp.d)]
    /\ UNCHANGED <<registry, objs, calls, ncalls, ctl>>
    /\ UNCHANGED <<cacheVars, pageVars>>

CompareEq == Compare("eq")

CompareLt == Compare("lt")

InitCmp ==
    /\ registry = [c \in Classes |-> {}]
    /\ objs = <<>>
    /\ calls = [c \in Classes |-> {}]
    /\ ncalls = 0
    /\ ctl = <<>>
    /\ CacheIdle
    /\ PageIdle
    /\ \E cls \in {"User", "Venue"} :
       \E a, b, c, d \in Entities(cls) :
          /\ IdentityOf(a) = IdentityOf(b) => a = b
          /\ IdentityOf(c) = IdentityOf(d) => c = d
          /\ cmp = [a |-> a, b |-> b, c |-> c, d |-> d,
                    op |-> "none", ab |-> FALSE, cd |-> FALSE]

NextCmp == CompareEq \/ CompareLt

SpecCmp == InitCmp /\ [][NextCmp]_vars

\* C20 (checked under SpecCmp): what a == b and a < b come to depends on the
\* identity fields of a and b only: entities of the same identities compare
\* the same way in every run, and entities of equal identity are equal and
\* neither is less than the other.
ComparisonByIdentity ==
    cmp.op # "none" =>
        /\ (IdentityOf(cmp.a) = IdentityOf(cmp.c)
               /\ IdentityOf(cmp.b) = IdentityOf(cmp.d)) => cmp.ab = cmp.cd
        /\ IdentityOf(cmp.a) = IdentityOf(cmp.b) => cmp.ab = (cmp.op = "eq")

(***************************************************************************)
(* Cached properties of one User ("alice") and of its Library.             *)
(*                                                                         *)
(* The value of a listing is the version of it the server held when it     *)
(* was computed; a successful create/add raises the version.  A cached     *)
(* attribute that holds nothing is None.                                   *)
(***************************************************************************)
UserProps == {"events", "playlists", "weekly_chart_list"}

LibraryProps == {"albums", "artists", "tracks"}

Props == UserProps \cup LibraryProps

MaxPosts == 2

UserName == "alice"

Unset == [none |-> TRUE, v |-> 0]

IsSet(p) == ~cache[p].none

\* What a compute, a search or a whole operation comes to: a value or an
\* error, and the number of fetches it issued.
\* fault: whether something in it failed, whatever became of the failure.
Returns(v, n) ==
    [ok |-> TRUE, val |-> v, err |-> "ok", fetches |-> n, fault |-> FALSE,
     none |-> FALSE]

\* The body returns None.
ReturnsNone(n) ==
    [ok |-> TRUE, val |-> 0, err |-> "ok", fetches |-> n, fault |-> FALSE,
     none |-> TRUE]

Raises(e, n) ==
    [ok |-> FALSE, val |-> 0, err |-> e, fetches |-> n, fault |-> TRUE,
     none |-> FALSE]

\* A failure caught inside the body, which returns v in its place.
Masks(v, n) ==
    [ok |-> TRUE, val |-> v, err |-> "ok", fetches |-> n, fault |-> TRUE,
     none |-> FALSE]

\* The Python value a body returned.
Value(out) == IF out.none THEN Unset ELSE PyVal(out.val)

\* User._default_params, Library._default_params: a user without a name
\* cannot be asked about.
DefaultParamsOk(name) == name # ""

\* self._api._fetch_data(params): the listing, or the error of the Api.
FetchData(p, ok) ==
    IF ok THEN Returns(srv[p], 1) ELSE Raises("LastfmError", 1)

\* The body of events, playlists and weekly_chart_list: the default
\* parameters, one fetch, the list built from the response.
FetchList(p, ok) ==
    IF DefaultParamsOk(UserName) THEN FetchData(p, ok)
    ELSE Raises("InvalidParametersError", 0)

\* The body of Library.albums, artists and tracks: self.get_albums(), a lazy
\* list on which nothing was fetched yet.
LazyListing(p) == Returns(srv[p], 0)

Observed(op, p, out, ret, computed) ==
    [op |-> op, prop |-> p, res |-> out.err, ret |-> ret,
     computed |-> computed, why |-> pending[p], fetches |-> out.fetches,
     fault |-> out.fault]

\* What the caller of an operation that is no cached property observed.
Called(op, p, out) ==
    [op |-> op, prop |-> p, res |-> out.err,
     ret |-> IF out.ok /\ op \in {"call", "get", "authenticated"}
             THEN Value(out) ELSE Unset,
     computed |-> FALSE, why |-> "none", fetches |-> out.fetches,
     fault |-> out.fault]

Bump(n) == IF n < 2 THEN n + 1 ELSE n

\* The collections of a User that have a top-item accessor.
TopCollections ==
    <<"neighbours", "recent_tracks", "top_albums", "top_artists",
      "top_tracks", "top_tags">>

TopProps == {TopCollections[i] : i \in 1..Len(TopCollections)}

MaxListed == 2

\* The list the server returns for collection p when it holds v elements
\* of it: the elements are numbered apart for each collection, and the one
\* that came last is first.
Listing(p, v) ==
    LET rank == CHOOSE i \in 1..Len(TopCollections) : TopCollections[i] = p
    IN  [i \in 1..v |-> 10 * rank + (v + 1 - i)]

\* top_property: len(top_list) and top_list[0] or None
TopItem(l) == IF Len(l) # 0 THEN PyVal(l[1]) ELSE Unset

\* What the reader observes: of a property (acc is ""), the value read; of
\* the top-item accessor acc of a collection, the top item of the value read.
\* The value of a collection is the number of elements it lists.
View(acc, p, o) ==
    IF acc = "" THEN o
    ELSE [o EXCEPT !.op = acc,
                   !.ret = IF o.res = "ok" THEN TopItem(Listing(p, o.ret.v))
                           ELSE Unset]

\* cached_property, read for itself or through the accessor acc: the
\* attribute if it is set; else compute, store, return.
\* out is what the compute comes to if it is invoked.
CachedRead(acc, p, out) ==
    /\ IF IsSet(p)
       THEN /\ last' = View(acc, p,
                            Observed("read", p, Returns(0, 0), cache[p], FALSE))
            /\ pending' = [pending EXCEPT ![p] = "none"]
            /\ UNCHANGED <<cache, ncomp, cval>>
       ELSE IF out.ok
       THEN /\ cache' = [cache EXCEPT ![p] = Value(out)]
            /\ ncomp' = [ncomp EXCEPT ![p] = Bump(@)]
            /\ cval' = [cval EXCEPT ![p] = Value(out)]
            /\ pending' = [pending EXCEPT ![p] = "none"]
            /\ last' = View(acc, p,
                            Observed("read", p, out, Value(out), TRUE))
       ELSE /\ last' = View(acc, p, Observed("read", p, out, Unset, TRUE))
            /\ pending' = [pending EXCEPT ![p] = "failed"]
            /\ UNCHANGED <<cache, ncomp, cval>>
    /\ UNCHANGED <<srv, session, held>>
    /\ UNCHANGED <<regVars, pageVars>>

CachedProperty(p, out) == CachedRead("", p, out)

\* A plain property, read for itself or through the accessor acc: the body
\* runs at every read and nothing is stored.
PlainRead(acc, p, out) ==
    /\ IF out.ok
       THEN /\ ncomp' = [ncomp EXCEPT ![p] = Bump(@)]
            /\ cval' = [cval EXCEPT ![p] = Value(out)]
            /\ pending' = [pending EXCEPT ![p] = "none"]
            /\ last' = View(acc, p,
                            Observed("read", p, out, Value(out), TRUE))
       ELSE /\ last' = View(acc, p, Observed("read", p, out, Unset, TRUE))
            /\ pending' = [pending EXCEPT ![p] = "failed"]
            /\ UNCHANGED <<ncomp, cval>>
    /\ UNCHANGED <<cache, srv, session, held>>
    /\ UNCHANGED <<regVars, pageVars>>

PlainProperty(p, out) == PlainRead("", p, out)

\* events declared with property in place of cached_property.
User_events_plain ==
    \E ok \in BOOLEAN : PlainProperty("events", FetchList("events", ok))

\* User.events
User_events ==
    \E ok \in BOOLEAN : CachedProperty("events", FetchList("events", ok))

\* User.playlists
User_playlists ==
    \E ok \in BOOLEAN : CachedProperty("playlists", FetchList("playlists", ok))

\* weekly_chart_list catching LastfmError around its body, as
\* Library.get_albums does, and returning the empty list.
User_weekly_chart_list_masked ==
    \E ok \in BOOLEAN :
        CachedProperty("weekly_chart_list",
            IF ok THEN FetchList("weekly_chart_list", ok) ELSE Masks(0, 1))

\* User.weekly_chart_list
User_weekly_chart_list ==
    \E ok \in BOOLEAN :
        CachedProperty("weekly_chart_list", FetchList("weekly_chart_list", ok))

\* Library.albums, Library.artists, Library.tracks
Library_albums == CachedProperty("albums", LazyListing("albums"))

Library_artists == CachedProperty("artists", LazyListing("artists"))

Library_tracks == CachedProperty("tracks", LazyListing("tracks"))

(***************************************************************************)
(* Mutations.  Each is wrapped by authenticate; it posts, and after the    *)
(* post it sets the attribute of one cached property to None.              *)
(***************************************************************************)
Posts ==
    srv["playlists"] + srv["albums"] + srv["artists"] + srv["tracks"]
        + (IF "data" \in DOMAIN srv THEN srv["data"] ELSE 0)

\* authenticate: without a session the operation is not entered.
Authenticate(p, op) ==
    IF session THEN op
    ELSE /\ last' = Observed("mutate", p,
                        Raises("AuthenticationFailedError", 0), Unset, FALSE)
         /\ UNCHANGED <<cache, srv, session, ncomp, cval, pending, held>>
         /\ UNCHANGED <<regVars, pageVars>>

\* self._api.search_album(album)[0] / search_track(track)[0], when the
\* argument is a bare name and no artist is given: one fetch.
Search(needed, ok) ==
    IF ~needed THEN Returns(0, 0)
    ELSE IF ok THEN Returns(0, 1) ELSE Raises("LastfmError", 1)

\* The body of a mutation that is to invalidate property p: the search if
\* one is needed, the post, and then "self._<q> = None" for the properties q
\* of unset.
PostAndUnset(p, found, postOk, unset) ==
    IF ~found.ok
    THEN /\ last' = Observed("mutate", p, found, Unset, FALSE)
         /\ UNCHANGED <<cache, srv, session, ncomp, cval, pending, held>>
         /\ UNCHANGED <<regVars, pageVars>>
    ELSE IF ~postOk
    THEN /\ last' = Observed("mutate", p,
                        Raises("LastfmError", found.fetches), Unset, FALSE)
         /\ UNCHANGED <<cache, srv, session, ncomp, cval, pending, held>>
         /\ UNCHANGED <<regVars, pageVars>>
    ELSE /\ srv' = [srv EXCEPT ![p] = @ + 1]
         /\ cache' = [q \in DOMAIN cache |->
                         IF q \in unset THEN Unset ELSE cache[q]]
         /\ ncomp' = [q \in DOMAIN ncomp |->
                         IF q \in unset THEN 0 ELSE ncomp[q]]
         /\ cval' = [q \in DOMAIN cval |->
                         IF q \in unset THEN Unset ELSE cval[q]]
         /\ pending' = [pending EXCEPT ![p] = "invalidated"]
         /\ last' = Observed("mutate", p, Returns(0, found.fetches), Unset, FALSE)
         /\ UNCHANGED <<session, held>>
         /\ UNCHANGED <<regVars, pageVars>>

\* create_playlist without its last line, "self._playlists = None".
User_create_playlist_keep ==
    /\ Posts < MaxPosts
    /\ \E postOk \in BOOLEAN :
          Authenticate("playlists",
              PostAndUnset("playlists", Search(FALSE, TRUE), postOk, {}))

\* User.create_playlist
User_create_playlist ==
    /\ Posts < MaxPosts
    /\ \E postOk \in BOOLEAN :
          Authenticate("playlists",
              PostAndUnset("playlists", Search(FALSE, TRUE), postOk,
                           {"playlists"}))

\* add_album that sets self._artists to None as well.
Library_add_album_wide ==
    /\ Posts < MaxPosts
    /\ \E bare, searchOk, postOk \in BOOLEAN :
          Authenticate("albums",
              PostAndUnset("albums", Search(bare, searchOk), postOk,
                           {"albums", "artists"}))

\* Library.add_album
Library_add_album ==
    /\ Posts < MaxPosts
    /\ \E bare, searchOk, postOk \in BOOLEAN :
          Authenticate("albums",
              PostAndUnset("albums", Search(bare, searchOk), postOk,
                           {"albums"}))

\* Library.add_artist
Library_add_artist ==
    /\ Posts < MaxPosts
    /\ \E postOk \in BOOLEAN :
          Authenticate("artists",
              PostAndUnset("artists", Search(FALSE, TRUE), postOk,
                           {"artists"}))

\* Library.add_track without its authenticate decorator.
Library_add_track_unguarded ==
    /\ Posts < MaxPosts
    /\ \E bare, searchOk, postOk \in BOOLEAN :
          PostAndUnset("tracks", Search(bare, searchOk), postOk, {"tracks"})

\* Library.add_track
Library_add_track ==
    /\ Posts < MaxPosts
    /\ \E bare, searchOk, postOk \in BOOLEAN :
          Authenticate("tracks",
              PostAndUnset("tracks", Search(bare, searchOk), postOk,
                           {"tracks"}))

\* The Api gains or loses its session key.
SetSession ==
    /\ session' = ~session
    /\ last' = Called("session", "", Returns(0, 0))
    /\ UNCHANGED <<cache, srv, ncomp, cval, pending, held>>
    /\ UNCHANGED <<regVars, pageVars>>

InitCache ==
    /\ RegIdle
    /\ PageIdle
    /\ cache = [p \in Props |-> Unset]
    /\ srv = [p \in Props |-> 0]
    /\ session \in BOOLEAN
    /\ ncomp = [p \in Props |-> 0]
    /\ cval = [p \in Props |-> Unset]
    /\ pending = [p \in Props |-> "none"]
    /\ held = [p \in Props |-> 0]
    /\ last = Called("none", "", Returns(0, 0))

NextCache ==
    \/ User_events
    \/ User_playlists
    \/ User_weekly_chart_list
    \/ Library_albums
    \/ Library_artists
    \/ Library_tracks
    \/ User_create_playlist
    \/ Library_add_album
    \/ Library_add_artist
    \/ Library_add_track
    \/ SetSession

SpecCache == InitCache /\ [][NextCache]_vars

(***************************************************************************)
(* Claims about cached properties (checked under SpecCache).               *)
(***************************************************************************)
ReadOf(p) == last.op = "read" /\ last.prop = p

\* C3: between two invalidations of a cached property its compute succeeds
\* at most once, however often the property is read, and every read that
\* returns a value returns the value of that one computation.
CacheIdempotence ==
    /\ \A p \in Props : ncomp[p] <= 1
    /\ \A p \in Props :
          (ReadOf(p) /\ last.res = "ok") =>
              (ncomp[p] = 1 /\ last.ret = cval[p])

\* A read of events that found the attribute set and computed nothing.
CacheHitSeen ==
    ReadOf("events") /\ last.res = "ok" /\ ~last.computed

\* C4: the first read of a property after a successful mutation that
\* invalidates it invokes compute, and what it returns is the listing as the
\* server holds it after the mutation.
InvalidationRecomputes ==
    \A p \in Props :
        (ReadOf(p) /\ last.why = "invalidated") =>
            /\ last.computed
            /\ last.res = "ok" => last.ret = PyVal(srv[p])

\* playlists was read, create_playlist succeeded, playlists was read again.
RecomputedAfterCreate ==
    /\ ReadOf("playlists") /\ last.why = "invalidated" /\ last.res = "ok"
    /\ last.ret = PyVal(1)

\* C5: a mutation leaves the attribute of every cached property other than
\* the one it invalidates as it was, on its own entity and on every other.
InvalidationConfined ==
    [][last'.op = "mutate" =>
          \A q \in Props \ {last'.prop} :
              cache'[q] = cache[q] /\ ncomp'[q] = ncomp[q]]_vars

\* add_album succeeded while artists (same entity) and playlists (another
\* entity) were cached: both still are.
AddAlbumBesideCached ==
    /\ last.op = "mutate" /\ last.prop = "albums" /\ last.res = "ok"
    /\ IsSet("artists") /\ IsSet("playlists") /\ ~IsSet("albums")

\* C6: when something fails in the compute of a cached property, the read
\* raises, the attribute stays None, and the next read of the property
\* invokes compute again.
FailureTransparency ==
    \A p \in Props :
        /\ (ReadOf(p) /\ last.fault) => (last.res # "ok" /\ ~IsSet(p))
        /\ (ReadOf(p) /\ last.why = "failed") => last.computed

\* weekly_chart_list failed to compute, and the next read computed it.
RetriedAfterFailure ==
    /\ ReadOf("weekly_chart_list") /\ last.why = "failed"
    /\ last.res = "ok" /\ last.computed

(***************************************************************************)
(* Session-gated operations of the User.                                   *)
(***************************************************************************)
AuthProps == {"recommended_artists", "recommended_events"}

MaxHeld == 2

\* authenticate around a function: without a session the function is not
\* entered and AuthenticationFailedError is raised.
Gated(out) ==
    IF session THEN out ELSE Raises("AuthenticationFailedError", 0)

\* self._language and the like: set on the instance by
\* User.get_authenticated_user, on no other.
Attribute(isSet) ==
    IF isSet THEN Returns(0, 0) ELSE Raises("AttributeError", 0)

\* _fetch_data(params, sign = True, session = True): the Api refuses it
\* when it holds no session key.
SessionFetch(p, ok) ==
    IF session THEN FetchData(p, ok)
    ELSE Raises("AuthenticationFailedError", 0)

Uncached(op, p, out) ==
    /\ last' = Called(op, p, out)
    /\ UNCHANGED <<cache, srv, session, ncomp, cval, pending, held>>
    /\ UNCHANGED <<regVars, pageVars>>

\* User.get_recommended_events: authenticate around depaginate; the call
\* returns a lazy list and fetches nothing.
User_get_recommended_events ==
    Uncached("call", "recommended_events",
             Gated(LazyListing("recommended_events")))

\* User.recommended_events: cached_property around get_recommended_events().
User_recommended_events ==
    CachedProperty("recommended_events",
                   Gated(LazyListing("recommended_events")))

\* User.recommended_artists: cached_property around authenticate around
\* depaginate.
User_recommended_artists ==
    CachedProperty("recommended_artists",
                   Gated(LazyListing("recommended_artists")))

\* User.language, country, age, gender, subscriber: property around
\* authenticate.
User_language ==
    \E isSet \in BOOLEAN : Uncached("get", "language", Gated(Attribute(isSet)))

User_country ==
    \E isSet \in BOOLEAN : Uncached("get", "country", Gated(Attribute(isSet)))

User_age ==
    \E isSet \in BOOLEAN : Uncached("get", "age", Gated(Attribute(isSet)))

User_gender ==
    \E isSet \in BOOLEAN : Uncached("get", "gender", Gated(Attribute(isSet)))

User_subscriber ==
    \E isSet \in BOOLEAN :
        Uncached("get", "subscriber", Gated(Attribute(isSet)))

\* User.get_authenticated_user(api), as api.get_authenticated_user() calls
\* it: one fetch with session = True, which the Api refuses when it holds
\* no session key.
User_get_authenticated_user(ok) ==
    IF ~session THEN Raises("AuthenticationFailedError", 0)
    ELSE IF ok THEN Returns(0, 1) ELSE Raises("LastfmError", 1)

\* The User the session belongs to, and the User that is asked.
Principal(who) == [cls |-> "User", name |-> who, url |-> ""]

Self == [cls |-> "User", name |-> UserName, url |-> ""]

\* True and False, the ints 1 and 0.
PyBool(b) == IF b THEN 1 ELSE 0

\* authenticated without its try ... except.
User_authenticated_uncaught ==
    \E ok \in BOOLEAN, who \in Names :
        LET got == User_get_authenticated_user(ok) IN
        Uncached("authenticated", who,
                 IF got.ok
                 THEN Returns(PyBool(User_eq(Principal(who), Self)),
                              got.fetches)
                 ELSE got)

\* User.authenticated: auth_user == self, and False when
\* AuthenticationFailedError is raised.  who is the name of the User the
\* session belongs to.
User_authenticated ==
    \E ok \in BOOLEAN, who \in Names :
        LET got == User_get_authenticated_user(ok) IN
        Uncached("authenticated", who,
                 IF got.ok
                 THEN Returns(PyBool(User_eq(Principal(who), Self)),
                              got.fetches)
                 ELSE IF got.err = "AuthenticationFailedError"
                 THEN Masks(PyBool(FALSE), got.fetches)
                 ELSE got)

\* The holder of a cached recommended listing asks it for elements of a
\* page not fetched yet: the generator of the listing fetches that page.
Consume(p) ==
    /\ IsSet(p)
    /\ held[p] < MaxHeld
    /\ \E ok \in BOOLEAN :
          LET out == SessionFetch(p, ok) IN
          /\ last' = Called("consume", p, out)
          /\ held' = [held EXCEPT ![p] = IF out.ok THEN @ + 1 ELSE @]
    /\ UNCHANGED <<cache, srv, session, ncomp, cval, pending>>
    /\ UNCHANGED <<regVars, pageVars>>

ConsumeRecommended == \E p \in AuthProps : Consume(p)

InitAuth ==
    /\ RegIdle
    /\ PageIdle
    /\ cache = [p \in AuthProps |-> Unset]
    /\ srv = [p \in AuthProps |-> 0]
    /\ session \in BOOLEAN
    /\ ncomp = [p \in AuthProps |-> 0]
    /\ cval = [p \in AuthProps |-> Unset]
    /\ pending = [p \in AuthProps |-> "none"]
    /\ held = [p \in AuthProps |-> 0]
    /\ last = Called("none", "", Returns(0, 0))

NextAuth ==
    \/ User_get_recommended_events
    \/ User_recommended_events
    \/ User_recommended_artists
    \/ User_language
    \/ User_country
    \/ User_age
    \/ User_gender
    \/ User_subscriber
    \/ User_authenticated
    \/ ConsumeRecommended
    \/ SetSession

SpecAuth == InitAuth /\ [][NextAuth]_vars

(***************************************************************************)
(* Claims about session-gated operations (checked under SpecAuth).         *)
(***************************************************************************)
GatedInvocation ==
    \/ last.op = "call"
    \/ last.op = "get"
    \/ last.op = "read" /\ last.prop = "recommended_artists"

\* C7: whenever get_recommended_events, recommended_artists, language,
\* country, age, gender or subscriber is invoked while the Api holds no
\* session, it raises AuthenticationFailedError and fetches nothing.
AuthGateShortCircuit ==
    (GatedInvocation /\ ~session) =>
        (last.res = "AuthenticationFailedError" /\ last.fetches = 0)

\* C8: whenever recommended_artists or recommended_events is read while the
\* Api holds no session, the read raises AuthenticationFailedError and
\* returns nothing, whatever was read before.
SessionOnlyDataDenied ==
    (last.op = "read" /\ last.prop \in AuthProps /\ ~session) =>
        (last.res = "AuthenticationFailedError" /\ last.ret = Unset)

(***************************************************************************)
(* Top items.  Each collection is a list got by one fetch; recent_tracks   *)
(* is declared with property, the others with cached_property.  The        *)
(* accessors are declared with top_property, which reads the collection    *)
(* by its name and returns its first element.                              *)
(***************************************************************************)
\* getattr(ob, list_property_name) inside top_property.
TopProperty(acc, p, out) ==
    IF p = "recent_tracks" THEN PlainRead(acc, p, out)
    ELSE CachedRead(acc, p, out)

User_neighbours ==
    \E ok \in BOOLEAN : CachedProperty("neighbours", FetchList("neighbours", ok))

User_recent_tracks ==
    \E ok \in BOOLEAN :
        PlainProperty("recent_tracks", FetchList("recent_tracks", ok))

User_top_albums ==
    \E ok \in BOOLEAN : CachedProperty("top_albums", FetchList("top_albums", ok))

User_top_artists ==
    \E ok \in BOOLEAN :
        CachedProperty("top_artists", FetchList("top_artists", ok))

User_top_tracks ==
    \E ok \in BOOLEAN : CachedProperty("top_tracks", FetchList("top_tracks", ok))

User_top_tags ==
    \E ok \in BOOLEAN : CachedProperty("top_tags", FetchList("top_tags", ok))

User_nearest_neighbour ==
    \E ok \in BOOLEAN :
        TopProperty("nearest_neighbour", "neighbours",
                    FetchList("neighbours", ok))

User_most_recent_track ==
    \E ok \in BOOLEAN :
        TopProperty("most_recent_track", "recent_tracks",
                    FetchList("recent_tracks", ok))

\* top_album declared with top_property("top_artists").
User_top_album_of_artists ==
    \E ok \in BOOLEAN :
        TopProperty("top_album", "top_artists", FetchList("top_artists", ok))

User_top_album ==
    \E ok \in BOOLEAN :
        TopProperty("top_album", "top_albums", FetchList("top_albums", ok))

User_top_artist ==
    \E ok \in BOOLEAN :
        TopProperty("top_artist", "top_artists", FetchList("top_artists", ok))

User_top_track ==
    \E ok \in BOOLEAN :
        TopProperty("top_track", "top_tracks", FetchList("top_tracks", ok))

User_top_tag ==
    \E ok \in BOOLEAN :
        TopProperty("top_tag", "top_tags", FetchList("top_tags", ok))

\* A User none of whose collections was read; the server lists the same
\* number of elements, possibly none, in each.
InitTop ==
    /\ RegIdle
    /\ PageIdle
    /\ cache = [p \in TopProps |-> Unset]
    /\ \E n \in 0..MaxListed : srv = [p \in TopProps |-> n]
    /\ session = FALSE
    /\ ncomp = [p \in TopProps |-> 0]
    /\ cval = [p \in TopProps |-> Unset]
    /\ pending = [p \in TopProps |-> "none"]
    /\ held = [p \in TopProps |-> 0]
    /\ last = Called("none", "", Returns(0, 0))

NextTop ==
    \/ User_neighbours
    \/ User_recent_tracks
    \/ User_top_albums
    \/ User_top_artists
    \/ User_top_tracks
    \/ User_top_tags
    \/ User_nearest_neighbour
    \/ User_most_recent_track
    \/ User_top_album
    \/ User_top_artist
    \/ User_top_track
    \/ User_top_tag

SpecTop == InitTop /\ [][NextTop]_vars

(***************************************************************************)
(* Claims about top items (checked under SpecTop).                         *)
(***************************************************************************)
Accessors ==
    {"nearest_neighbour", "most_recent_track", "top_album", "top_artist",
     "top_track", "top_tag"}

CollectionOf(acc) ==
    CASE acc = "nearest_neighbour" -> "neighbours"
      [] acc = "most_recent_track" -> "recent_tracks"
      [] acc = "top_album" -> "top_albums"
      [] acc = "top_artist" -> "top_artists"
      [] acc = "top_track" -> "top_tracks"
      [] acc = "top_tag" -> "top_tags"

\* The elements of the collection of accessor acc, as the server lists them.
Listed(acc) == Listing(CollectionOf(acc), srv[CollectionOf(acc)])

\* C18: a top-item accessor that returns returns the element at index 0 of
\* its collection if the collection has elements and None if it has none;
\* it raises only if a fetch fails.
TopItemValue ==
    last.op \in Accessors =>
        /\ (last.res = "ok" /\ Listed(last.op) # <<>>) =>
              last.ret = PyVal(Listed(last.op)[1])
        /\ (last.res = "ok" /\ Listed(last.op) = <<>>) => last.ret = Unset
        /\ ~last.fault => last.res = "ok"

\* top_album of two albums is the first of them.
TopOfTwoAlbums ==
    /\ last.op = "top_album" /\ last.res = "ok"
    /\ Len(Listed("top_album")) = 2
    /\ last.ret = PyVal(Listed("top_album")[1])

\* C19: a top-item accessor read after its collection was read with success
\* fetches nothing.
TopItemNeverFetches ==
    last.op \in Accessors =>
        ((~last.computed \/ ncomp[CollectionOf(last.op)] >= 2) =>
            last.fetches = 0)

(***************************************************************************)
(* Lazy lists.                                                             *)
(*                                                                         *)
(* Paginated listings: Venue.get_past_events writes its generator out;     *)
(* User.get_past_events and Library.get_albums, get_artists, get_tracks    *)
(* are page functions under depaginate.  An element is <<page, place in    *)
(* the page>>.  The server paginates consistently: it reports 0 pages      *)
(* exactly when it holds no element, the pages before the last are full    *)
(* (they hold as many elements as page 1), the last holds at least one,    *)
(* and the pages beyond its total hold nothing.  total is the count page   *)
(* 1 carries, later the count every later page carries, bad the page       *)
(* whose fetch fails, 0 if none does.                                      *)
(*                                                                         *)
(* Weekly chart lists: weeks is the number of charts weekly_chart_list     *)
(* holds, failing the weeks whose chart cannot be fetched.  An element is  *)
(* <<week, 0>>.                                                            *)
(***************************************************************************)
MaxPages == 3

MaxPerPage == 2

MaxItems == MaxPages * MaxPerPage

MaxWeeks == 5

Max(a, b) == IF a >= b THEN a ELSE b

PagedKinds == {"Venue.get_past_events", "User.get_past_events"}

LibraryKinds ==
    {"Library.get_albums", "Library.get_artists", "Library.get_tracks"}

WeeklyKinds ==
    {"weekly_album_chart_list", "weekly_artist_chart_list",
     "weekly_track_chart_list", "weekly_tag_chart_list"}

\* What the entity holds for the parameter its requests are scoped by (the
\* name of the User, the id of the Venue): None, '', 0, or a value.
Scopes == {"absent", "empty", "zero", "given"}

Servers ==
    {s \in [kind : PagedKinds \cup LibraryKinds,
            total : 0..MaxPages,
            size : [1..MaxPages -> 0..MaxPerPage],
            bad : 0..MaxPages,
            later : {0, MaxPages},
            scope : Scopes] :
        /\ \A k \in 1..MaxPages : k > s.total => s.size[k] = 0
        /\ \A k \in 1..MaxPages : k < s.total => s.size[k] = s.size[1]
        /\ \A k \in 1..MaxPages :
              k = s.total => (s.size[k] >= 1 /\ s.size[k] <= s.size[1])
        /\ s.bad <= Max(s.total, 1)}

ChartServers ==
    {s \in [kind : WeeklyKinds, weeks : 0..MaxWeeks,
            failing : SUBSET (1..MaxWeeks)] :
        s.failing \subseteq 1..s.weeks}

\* _default_params: "if not self.name" (User, Library), "if not self.id"
\* (Venue): None, '' and 0 are all false.
ScopeOk == pages.scope \notin {"absent", "empty", "zero"}

\* _fetch_data raises LastfmError for page (week) k.
FetchFails(k) ==
    IF pages.kind \in WeeklyKinds THEN k \in pages.failing
    ELSE k = pages.bad

\* int(data.attrib['totalPages']) of the response for page k.
Reported(k) == IF k = 1 THEN pages.total ELSE pages.later

\* total_pages once a later page k was fetched, were it read again from
\* each response and the largest kept.
TotalPagesLargest(g, k) == Max(g.total, Reported(k))

\* total_pages once a later page k was fetched: it is read from the first
\* response only, before the loop.
TotalPages(g, k) == g.total

\* data.findall('event') of page k, each made an Event.
PageItems(k) == [j \in 1..pages.size[k] |-> <<k, j>>]

\* xrange(1, total_pages + 1): the loop starts over at page 1.
LaterPagesFromOne(total) == [i \in 1..total |-> i]

\* xrange(2, total_pages): the loop stops one page early.
LaterPagesShort(total) == [i \in 1..(total - 2) |-> i + 1]

\* The loop over the later pages left out.
LaterPagesNone(total) == <<>>

\* xrange(2, total_pages + 1): the pages fetched after the first.
LaterPages(total) == [i \in 1..Max(total - 1, 0) |-> i + 1]

\* The page the generator is in: the first, or the pos-th of the later ones.
PageAt(g) == IF g.pos = 0 THEN 1 ELSE LaterPages(g.total)[g.pos]

Suspended(pos, idx, total) ==
    [pc |-> "page", pos |-> pos, idx |-> idx, total |-> total]

Finished(g, pc) == [g EXCEPT !.pc = pc]

\* gen() that fetches the next page before it yields the last element of
\* the page it is in.
RECURSIVE RunPrefetching(_, _)
RunPrefetching(g, log) ==
    LET k == PageAt(g) IN
    IF g.idx < pages.size[k]
    THEN [gen |-> Suspended(g.pos, g.idx + 1, g.total), ev |-> "item",
          item |-> PageItems(k)[g.idx + 1],
          log |-> IF g.idx + 1 = pages.size[k]
                       /\ g.pos < Len(LaterPages(g.total))
                  THEN Append(log, LaterPages(g.total)[g.pos + 1])
                  ELSE log]
    ELSE IF g.pos < Len(LaterPages(g.total))
    THEN LET next == LaterPages(g.total)[g.pos + 1] IN
         IF FetchFails(next)
         THEN [gen |-> Finished(g, "raised"), ev |-> "raise",
               item |-> <<0, 0>>, log |-> log]
         ELSE RunPrefetching(Suspended(g.pos + 1, 0, TotalPages(g, next)), log)
    ELSE [gen |-> Finished(g, "done"), ev |-> "stop",
          item |-> <<0, 0>>, log |-> log]

\* One resumption of gen(): it runs to its next yield, to its end or to the
\* error of a fetch.  log collects the pages it fetches on the way.
RECURSIVE Run(_, _)
Run(g, log) ==
    LET k == PageAt(g) IN
    IF g.idx < pages.size[k]
    THEN [gen |-> Suspended(g.pos, g.idx + 1, g.total), ev |-> "item",
          item |-> PageItems(k)[g.idx + 1], log |-> log]
    ELSE IF g.pos < Len(LaterPages(g.total))
    THEN LET next == LaterPages(g.total)[g.pos + 1] IN
         IF FetchFails(next)
         THEN [gen |-> Finished(g, "raised"), ev |-> "raise",
               item |-> <<0, 0>>, log |-> Append(log, next)]
         ELSE Run(Suspended(g.pos + 1, 0, TotalPages(g, next)),
                  Append(log, next))
    ELSE [gen |-> Finished(g, "done"), ev |-> "stop",
          item |-> <<0, 0>>, log |-> log]

\* The generator gen() of Venue.get_past_events, resumed once.
Resume(g) ==
    CASE g.pc = "start" ->
           IF FetchFails(1)
           THEN [gen |-> Finished(g, "raised"), ev |-> "raise",
                 item |-> <<0, 0>>, log |-> <<1>>]
           ELSE Run(Suspended(0, 0, Reported(1)), <<1>>)
      [] g.pc = "page" -> Run(g, <<>>)
      [] g.pc = "done" ->
           [gen |-> g, ev |-> "stop", item |-> <<0, 0>>, log |-> <<>>]
      \* a generator that an exception has left is finished: resumed again,
      \* it raises StopIteration
      [] g.pc = "raised" ->
           [gen |-> g, ev |-> "stop", item |-> <<0, 0>>, log |-> <<>>]

\* Whether the page function catches the LastfmError of its fetch and
\* returns: Library.get_albums, get_artists and get_tracks do,
\* User.get_past_events does not.
Catches(kind) == kind \in LibraryKinds

\* The generator depaginate makes of a page function: the loop
\* Venue.get_past_events writes out, with the page function called once for
\* each page.  A page function that returns without having yielded anything
\* ends the generator.
\* The page function calls _default_params first, outside its try: a
\* missing name ends the first resumption with InvalidParametersError.
Depaginated(g) ==
    IF g.pc = "start" /\ ~ScopeOk
    THEN [gen |-> Finished(g, "raised"), ev |-> "invalid",
          item |-> <<0, 0>>, log |-> <<>>]
    ELSE LET r == Resume(g) IN
         IF r.ev = "raise" /\ Catches(pages.kind)
         THEN [r EXCEPT !.gen = Finished(g, "done"), !.ev = "stop"]
         ELSE r

\* wcl = list(self.weekly_chart_list); wcl.reverse()
Reverse(s) == [i \in 1..Len(s) |-> s[Len(s) + 1 - i]]

WeeklyChartList == [i \in 1..pages.weeks |-> i]

Wcl == Reverse(WeeklyChartList)

\* "except LastfmError: return" in place of "pass".
ExceptLastfmErrorReturn == "return"

\* What gen() of a weekly chart list does with the LastfmError of
\* get_weekly_*_chart: "except LastfmError: pass".
ExceptLastfmError == "pass"

\* One resumption of gen() of weekly_album_chart_list (and of the artist,
\* track and tag lists): for wc in wcl, yield the chart of wc, or go on to
\* the next week if it cannot be fetched.
RECURSIVE WeeklyRun(_, _)
WeeklyRun(g, log) ==
    IF g.pos >= Len(Wcl)
    THEN [gen |-> Finished(g, "done"), ev |-> "stop",
          item |-> <<0, 0>>, log |-> log]
    ELSE LET wc == Wcl[g.pos + 1] IN
         IF ~FetchFails(wc)
         THEN [gen |-> Suspended(g.pos + 1, 0, g.total), ev |-> "item",
               item |-> <<wc, 0>>, log |-> Append(log, wc)]
         ELSE IF ExceptLastfmError = "pass"
         THEN WeeklyRun(Suspended(g.pos + 1, 0, g.total), Append(log, wc))
         ELSE [gen |-> Finished(g, "done"), ev |-> "stop",
               item |-> <<0, 0>>, log |-> Append(log, wc)]

WeeklyResume(g) ==
    IF g.pc = "done"
    THEN [gen |-> g, ev |-> "stop", item |-> <<0, 0>>, log |-> <<>>]
    ELSE WeeklyRun(g, <<>>)

\* The generator behind the list, resumed once.
Producer(g) ==
    IF pages.kind \in WeeklyKinds THEN WeeklyResume(g)
    ELSE IF pages.kind = "Venue.get_past_events" THEN Resume(g)
    ELSE Depaginated(g)

\* materialize_up_to(n): resume the generator until n elements are cached
\* or it yields no more.  pulls counts the elements it yielded.
RECURSIVE Fill(_, _, _, _)
Fill(g, l, log, n) ==
    IF Len(l) >= n
    THEN [gen |-> g, lst |-> l, log |-> log, ev |-> "item", pulls |-> 0]
    ELSE LET r == Producer(g) IN
         IF r.ev = "item"
         THEN [Fill(r.gen, Append(l, r.item), log \o r.log, n)
                  EXCEPT !.pulls = @ + 1]
         ELSE [gen |-> r.gen, lst |-> l, log |-> log \o r.log, ev |-> r.ev,
               pulls |-> 0]

\* The generator was left by an exception, and which.
Fails(r) == r.ev \in {"raise", "invalid"}

ErrorOf(r) ==
    IF r.ev = "invalid" THEN "InvalidParametersError" ELSE "LastfmError"

Prefix(l, n) == [i \in 1..(IF n < Len(l) THEN n ELSE Len(l)) |-> l[i]]

\* fault: whether a fetch failed during the access.
Access(op, arg, r, res, ret) ==
    /\ gen' = r.gen
    /\ lst' = r.lst
    /\ reqs' = reqs \o r.log
    /\ yielded' = yielded + r.pulls
    /\ plast' = [op |-> op, arg |-> arg, res |-> res, ret |-> ret,
                 before |-> Len(lst), old |-> lst,
                 fault |-> \E i \in 1..Len(r.log) : FetchFails(r.log[i])]
    /\ UNCHANGED pages
    /\ UNCHANGED <<regVars, cacheVars>>

\* lst[i] that materializes one element more than index i needs.
AtAhead(i) ==
    LET r == Fill(gen, lst, <<>>, i + 2) IN
    IF Len(r.lst) > i THEN Access("at", i, r, "ok", <<r.lst[i + 1]>>)
    ELSE IF r.ev = "raise" THEN Access("at", i, r, "LastfmError", <<>>)
    ELSE Access("at", i, r, "IndexError", <<>>)

\* lst[i] that raises the error of the generator again, whatever i, once
\* the generator has failed.
AtFailed(i) ==
    LET r == Fill(gen, lst, <<>>, i + 1) IN
    IF gen.pc = "raised" THEN Access("at", i, r, "LastfmError", <<>>)
    ELSE IF Len(r.lst) > i THEN Access("at", i, r, "ok", <<r.lst[i + 1]>>)
    ELSE IF r.ev = "raise" THEN Access("at", i, r, "LastfmError", <<>>)
    ELSE Access("at", i, r, "IndexError", <<>>)

\* lst[i]: the element at index i (from 0), materialized if need be.
At(i) ==
    LET r == Fill(gen, lst, <<>>, i + 1) IN
    IF Len(r.lst) > i THEN Access("at", i, r, "ok", <<r.lst[i + 1]>>)
    ELSE IF Fails(r) THEN Access("at", i, r, ErrorOf(r), <<>>)
    ELSE Access("at", i, r, "IndexError", <<>>)

FreshGen == [pc |-> "start", pos |-> 0, idx |-> 0, total |-> 0]

\* An iteration that materializes one element more than it hands out.
IterateAhead(n) ==
    LET r == Fill(gen, lst, <<>>, n + 1) IN
    IF Len(r.lst) < n + 1 /\ r.ev = "raise"
    THEN Access("iterate", n, r, "LastfmError", <<>>)
    ELSE Access("iterate", n, r, "ok", Prefix(r.lst, n))

\* An iteration that calls the generator function anew and drops what the
\* list had cached.
IterateAfresh(n) ==
    LET r == Fill(FreshGen, <<>>, <<>>, n) IN
    IF Len(r.lst) < n /\ r.ev = "raise"
    THEN Access("iterate", n, r, "LastfmError", <<>>)
    ELSE Access("iterate", n, r, "ok", Prefix(r.lst, n))

\* An iteration from the start that stops after n elements.
Iterate(n) ==
    LET r == Fill(gen, lst, <<>>, n) IN
    IF Len(r.lst) < n /\ Fails(r)
    THEN Access("iterate", n, r, ErrorOf(r), <<>>)
    ELSE Access("iterate", n, r, "ok", Prefix(r.lst, n))

\* list(lst): the full materialization.
AsList ==
    LET r == Fill(gen, lst, <<>>, MaxItems + 1) IN
    IF Fails(r) THEN Access("as_list", 0, r, ErrorOf(r), <<>>)
    ELSE Access("as_list", 0, r, "ok", r.lst)

IndexAccess == \E i \in 0..MaxItems : At(i)

Iteration == \E n \in 0..MaxItems : Iterate(n)

NoAccess ==
    [op |-> "none", arg |-> 0, res |-> "ok", ret |-> <<>>,
     before |-> 0, old |-> <<>>, fault |-> FALSE]

\* The list as get_past_events (get_albums, ...) returns it: nothing was
\* fetched yet.
NewList ==
    /\ RegIdle
    /\ CacheIdle
    /\ gen = FreshGen
    /\ lst = <<>>
    /\ reqs = <<>>
    /\ yielded = 0
    /\ plast = NoAccess

InitPage ==
    NewList
      /\ pages \in {s \in Servers : s.kind \in PagedKinds /\ s.scope = "given"}

InitLib ==
    NewList
      /\ pages \in {s \in Servers : s.kind \in LibraryKinds /\ s.scope = "given"}

InitWeekly == NewList /\ pages \in ChartServers

NextPage == IndexAccess \/ Iteration \/ AsList

SpecPage == InitPage /\ [][NextPage]_vars

SpecLib == InitLib /\ [][NextPage]_vars

SpecWeekly == InitWeekly /\ [][NextPage]_vars

(***************************************************************************)
(* Claims about depagination (checked under SpecPage).                     *)
(***************************************************************************)
RECURSIVE ItemsOfPages(_)
ItemsOfPages(n) ==
    IF n = 0 THEN <<>> ELSE ItemsOfPages(n - 1) \o PageItems(n)

Count(log, k) == Cardinality({i \in 1..Len(log) : log[i] = k})

\* The last access was a full materialization, it returned, and the generator
\* had come to its end (a generator that raised has not: it was cut short).
FullyMaterialized ==
    plast.op = "as_list" /\ plast.res = "ok" /\ gen.pc = "done"

\* C9: a full materialization in which no fetch fails returns, and leaves
\* cached, exactly the elements of pages 1..N, N the total the first page
\* reports: each once, page after page, in the order of each page.
DepaginationComplete ==
    FullyMaterialized =>
        (plast.ret = ItemsOfPages(pages.total) /\ lst = plast.ret)

\* Three pages of two elements each were materialized: six elements.
ThreePagesOfTwo ==
    /\ FullyMaterialized
    /\ pages.total = 3
    /\ \A k \in 1..3 : pages.size[k] = 2
    /\ Len(plast.ret) = 6

PageCursorInvariant ==
    /\ (gen.pc # "start" /\ ~FetchFails(1)) => gen.total = pages.total
    /\ \A i \in 1..Len(reqs) : reqs[i] = i
    /\ Len(reqs) <= Max(pages.total, 1)

\* All three pages were requested although pages 2 and 3 carry a count of 0.
LaterCountIgnored ==
    /\ pages.total = 3 /\ pages.later = 0
    /\ reqs = <<1, 2, 3>>
    /\ gen.total = 3

\* The number of elements of the pages before page k.
ItemsBefore(k) == Len(ItemsOfPages(k - 1))

\* C12: when the fetch of page k >= 2 fails, an index access or an iteration
\* that asks only for elements of pages 1..k-1 returns them and raises
\* nothing; LastfmError is raised only to an access that needs an element of
\* page k or of a later page.
LazyFailureSurfacing ==
    pages.bad >= 2 =>
        /\ (plast.op = "at" /\ plast.arg < ItemsBefore(pages.bad)) =>
              /\ plast.res = "ok"
              /\ plast.ret = <<ItemsOfPages(pages.bad - 1)[plast.arg + 1]>>
        /\ (plast.op = "iterate" /\ plast.arg <= ItemsBefore(pages.bad)) =>
              /\ plast.res = "ok"
              /\ plast.ret = Prefix(ItemsOfPages(pages.bad - 1), plast.arg)
        /\ plast.res = "LastfmError" =>
              \/ plast.op = "as_list"
              \/ plast.op = "at" /\ plast.arg >= ItemsBefore(pages.bad)
              \/ plast.op = "iterate" /\ plast.arg > ItemsBefore(pages.bad)

\* Page 2 cannot be fetched; an iteration took the two elements of page 1
\* and stopped: no error, and page 2 was not asked for.
PageOneOnlyConsumed ==
    /\ pages.bad = 2 /\ pages.size[1] = 2
    /\ plast.op = "iterate" /\ plast.arg = 2
    /\ plast.res = "ok" /\ Len(plast.ret) = 2
    /\ reqs = <<1>>

\* C13 (checked under SpecLib): outside the weekly chart lists a fetch error
\* reaches the consumer: an access to a Library listing during which a
\* fetch fails raises LastfmError, and a full materialization that returns
\* returns the elements of all the pages, not an empty or a shortened list.
FetchErrorsPropagate ==
    /\ plast.fault => plast.res = "LastfmError"
    /\ FullyMaterialized => plast.ret = ItemsOfPages(pages.total)

(***************************************************************************)
(* Claims about weekly chart lists (checked under SpecWeekly).             *)
(***************************************************************************)
Fetched(w) == ~FetchFails(w)

\* The charts of the weeks that can be fetched, in the order gen() walks
\* the weeks (wcl, the latest week first).
FetchedCharts ==
    LET ws == SelectSeq(Wcl, Fetched) IN [i \in 1..Len(ws) |-> <<ws[i], 0>>]

\* C14: whatever weeks fail to be fetched, no access to a weekly chart list
\* raises LastfmError, the charts cached at any time are the first charts of
\* the weeks that could be fetched, in the order the weeks are walked, and
\* the full materialization returns exactly the charts of those weeks.
PartialAggregation ==
    /\ plast.res # "LastfmError"
    /\ lst = Prefix(FetchedCharts, Len(lst))
    /\ plast.op = "as_list" => (plast.res = "ok" /\ plast.ret = FetchedCharts)

\* Five weeks of which the third cannot be fetched: the list holds the
\* charts of the other four.
FourChartsOfFive ==
    /\ pages.weeks = 5 /\ pages.failing = {3}
    /\ plast.op = "as_list" /\ plast.res = "ok"
    /\ plast.ret = <<<<5, 0>>, <<4, 0>>, <<2, 0>>, <<1, 0>>>>
    /\ reqs = <<5, 4, 3, 2, 1>>

(***************************************************************************)
(* Claims about the lazy list itself (checked under SpecPage).             *)
(***************************************************************************)
\* C15: every access leaves the elements cached before it where they were
\* and resumes the generator only for the indices after them, once for each
\* index it adds; an iteration from the start returns the cached elements
\* in their order, so that two iterations agree on every index both reach.
RestartWithoutRefetch ==
    [][/\ Len(lst') >= Len(lst)
       /\ \A i \in 1..Len(lst) : lst'[i] = lst[i]
       /\ yielded' - yielded = Len(lst') - Len(lst)
       /\ yielded' = Len(lst')
       /\ (plast'.op = "iterate" /\ plast'.res = "ok") =>
             plast'.ret = Prefix(lst', plast'.arg)]_vars

\* The elements at index 0..2 were cached; an iteration from the start went
\* past them: it returned them again and the generator was resumed for the
\* index 3 onward only.
IteratedPastCached ==
    /\ plast.op = "iterate" /\ plast.res = "ok"
    /\ plast.before = 3 /\ Len(plast.ret) > 3
    /\ Prefix(plast.ret, 3) = plast.old
    /\ yielded = Len(lst)

\* C16: once the generator has failed after yielding m elements, the list
\* holds those m elements, unchanged and in order, in every later state; an
\* index access below m and an iteration over at most m elements return
\* them and raise nothing.
PrefixValidAfterFailure ==
    gen.pc = "raised" =>
        /\ Len(lst) = yielded
        /\ lst = Prefix(ItemsOfPages(pages.total), yielded)
        /\ ~plast.fault =>
              /\ lst = plast.old
              /\ (plast.op = "at" /\ plast.arg < yielded) =>
                    (plast.res = "ok" /\ plast.ret = <<lst[plast.arg + 1]>>)
              /\ (plast.op = "iterate" /\ plast.arg <= yielded) =>
                    (plast.res = "ok" /\ plast.ret = Prefix(lst, plast.arg))

\* The fetch of page 2 failed after the two elements of page 1; later the
\* element at index 1 was asked for and returned.
ReadBelowFailure ==
    /\ gen.pc = "raised" /\ yielded = 2 /\ ~plast.fault
    /\ plast.op = "at" /\ plast.arg = 1
    /\ plast.res = "ok" /\ plast.ret = <<<<1, 2>>>>

Friends == {k \in KwdsWith("User", Others) : k.has /\ ~k.val.none}

\* get_friends whose Users take the place of the registered ones.
User_get_friends_replacing ==
    \E k \in Friends :
        /\ ncalls < MaxCalls
        /\ ncalls' = ncalls + 1
        /\ LET h == HashFunc("User", k)
               inst == Len(objs) + 1 IN
             /\ registry' = [registry EXCEPT !["User"] =
                    (@ \ Registered("User", h.key))
                        \cup {[key |-> h.key, inst |-> inst]}]
             /\ objs' = Append(objs, EntityInit("User", k))
             /\ calls' = [calls EXCEPT !["User"] = @ \cup
                             {[kwds |-> k, res |-> inst]}]
        /\ UNCHANGED <<cmp, ctl>>
        /\ UNCHANGED <<cacheVars, pageVars>>

\* get_friends whose Users run init() whether they are registered or not.
User_get_friends_rebuilding ==
    \E k \in Friends :
        /\ ncalls < MaxCalls
        /\ ncalls' = ncalls + 1
        /\ LET h == HashFunc("User", k)
               inst == IF Registered("User", h.key) = {} THEN Len(objs) + 1
                       ELSE (CHOOSE e \in Registered("User", h.key) : TRUE).inst
           IN
             /\ registry' = [registry EXCEPT !["User"] =
                                 @ \cup {[key |-> h.key, inst |-> inst]}]
             /\ objs' = [i \in 1..Max(inst, Len(objs)) |->
                            IF i = inst THEN EntityInit("User", k) ELSE objs[i]]
             /\ calls' = [calls EXCEPT !["User"] = @ \cup
                             {[kwds |-> k, res |-> inst]}]
        /\ UNCHANGED <<cmp, ctl>>
        /\ UNCHANGED <<cacheVars, pageVars>>

\* User.get_friends, the server listing one friend: one fetch, and a User
\* constructed from what it returned.
User_get_friends ==
    \E ok \in BOOLEAN :
        IF ok THEN \E k \in Friends : Construct("User", k)
        ELSE /\ last' = Called("get_friends", "", Raises("LastfmError", 1))
             /\ UNCHANGED <<cache, srv, session, ncomp, cval, pending, held>>
             /\ UNCHANGED <<regVars, pageVars>>

InitLife == InitCache

NextLife ==
    \/ User_get_friends
    \/ User_playlists
    \/ User_create_playlist
    \/ SetSession

SpecLife == InitLife /\ [][NextLife]_vars

\* C21 (checked under SpecLife): no step, be it a construction, a read, a
\* mutation that invalidates a cached property or a fetch that fails, takes
\* an entry out of the registry or gives its key another instance.
NoEviction ==
    [][\A c \in Classes : \A e \in registry[c] :
          /\ e \in registry'[c]
          /\ \A f \in registry'[c] : f.key = e.key => f = e]_vars

\* A User was constructed twice and came back the same, and a playlist was
\* created after it was registered.
RegisteredOutlivesMutation ==
    /\ \E a, b \in calls["User"] : a # b /\ a.res = b.res
    /\ Cardinality(registry["User"]) = 2
    /\ last.op = "mutate" /\ last.res = "ok"

(***************************************************************************)
(* SpecMut: the five session-gated mutations, and the cached properties    *)
(* they invalidate: playlists of the User, tracks of its Library, and data *)
(* of one of its Playlists.                                                *)
(***************************************************************************)
PlaylistProps == {"data"}

ChartProps == {"recent_weekly_album_chart"}

MutProps == Props \cup PlaylistProps \cup ChartProps

\* User.get_weekly_album_chart(): the default parameters, one fetch, and what
\* WeeklyAlbumChart.create_from_data makes of the response: a chart, or None.
User_get_weekly_album_chart(ok, made) ==
    IF ~DefaultParamsOk(UserName) THEN Raises("InvalidParametersError", 0)
    ELSE IF ~ok THEN Raises("LastfmError", 1)
    ELSE IF made THEN Returns(srv["recent_weekly_album_chart"], 1)
    ELSE ReturnsNone(1)

\* User.recent_weekly_album_chart
User_recent_weekly_album_chart ==
    \E ok, made \in BOOLEAN :
        CachedProperty("recent_weekly_album_chart",
                       User_get_weekly_album_chart(ok, made))

\* Playlist.data: the playlist as the server holds it, one fetch.
Playlist_data ==
    \E ok \in BOOLEAN : CachedProperty("data", FetchData("data", ok))

\* add_track with "self._data = None" ahead of the post.
Playlist_add_track_unset_first ==
    /\ Posts < MaxPosts
    /\ \E bare, searchOk, postOk \in BOOLEAN :
          Authenticate("data",
              LET found == Search(bare, searchOk) IN
              IF found.ok /\ ~postOk
              THEN /\ cache' = [cache EXCEPT !["data"] = Unset]
                   /\ ncomp' = [ncomp EXCEPT !["data"] = 0]
                   /\ cval' = [cval EXCEPT !["data"] = Unset]
                   /\ last' = Observed("mutate", "data",
                                  Raises("LastfmError", found.fetches),
                                  Unset, FALSE)
                   /\ UNCHANGED <<srv, session, pending, held>>
                   /\ UNCHANGED <<regVars, pageVars>>
              ELSE PostAndUnset("data", found, postOk, {"data"}))

\* User.Playlist.add_track
Playlist_add_track ==
    /\ Posts < MaxPosts
    /\ \E bare, searchOk, postOk \in BOOLEAN :
          Authenticate("data",
              PostAndUnset("data", Search(bare, searchOk), postOk, {"data"}))

InitMut ==
    /\ RegIdle
    /\ PageIdle
    /\ cache = [p \in MutProps |-> Unset]
    /\ srv = [p \in MutProps |-> 0]
    /\ session \in BOOLEAN
    /\ ncomp = [p \in MutProps |-> 0]
    /\ cval = [p \in MutProps |-> Unset]
    /\ pending = [p \in MutProps |-> "none"]
    /\ held = [p \in MutProps |-> 0]
    /\ last = Called("none", "", Returns(0, 0))

NextMut ==
    \/ User_playlists
    \/ Library_tracks
    \/ Playlist_data
    \/ User_create_playlist
    \/ Library_add_album
    \/ Library_add_artist
    \/ Library_add_track
    \/ Playlist_add_track
    \/ SetSession

SpecMut == InitMut /\ [][NextMut]_vars

\* C22 (checked under SpecMut): a mutation that fails leaves every cached
\* property, the one it would have invalidated among them, with the value
\* it had, and a read of that property right after it computes nothing.
FailedMutationKeepsCache ==
    [][/\ (last'.op = "mutate" /\ last'.res # "ok") =>
              (cache' = cache /\ ncomp' = ncomp /\ srv' = srv)
       /\ (/\ last.op = "mutate" /\ last.res # "ok"
           /\ IsSet(last.prop)
           /\ last'.op = "read" /\ last'.prop = last.prop) =>
              (~last'.computed /\ last'.ret = cache[last.prop])]_vars

\* data of the playlist was cached, and the post of add_track failed.
AddTrackFailedBesideCached ==
    /\ last.op = "mutate" /\ last.prop = "data" /\ last.res = "LastfmError"
    /\ session /\ last.fetches = 1
    /\ IsSet("data")

\* C23 (checked under SpecMut): without a session each of the five
\* mutations raises AuthenticationFailedError and does nothing else: it
\* issues no fetch, submits nothing and sets no attribute to None.
UnauthenticatedMutationInert ==
    [][(last'.op = "mutate" /\ ~session) =>
          /\ last'.res = "AuthenticationFailedError"
          /\ last'.fetches = 0
          /\ srv' = srv
          /\ cache' = cache /\ ncomp' = ncomp /\ cval' = cval]_vars

\* A track was added to the library, tracks was cached, the session was
\* lost, and add_track was refused.
AddTrackRefused ==
    /\ last.op = "mutate" /\ last.prop = "tracks"
    /\ last.res = "AuthenticationFailedError"
    /\ srv["tracks"] = 1 /\ IsSet("tracks")

(***************************************************************************)
(* SpecBuild: the construction of an entity in two steps, its entry into   *)
(* the registry and the run of its init(), with the constructions that     *)
(* start while an init() runs.  ctl is the stack of the init()s running.   *)
(***************************************************************************)
MaxDepth == 2

\* The instance is registered when init() has returned.
RegisteredAfterInit == FALSE

\* The instance is registered before init() is called.
RegisteredBeforeInit == TRUE

\* The fields of an instance on which init() did not run yet.
Unbuilt(cls) == [cls |-> cls, idval |-> PyNone(cls), other |-> ""]

\* LastfmBase.__new__ up to its call of init(): the key is computed; a
\* registered instance is returned as it is; a new one is created,
\* registered, and its init() is entered.
Enter(cls, kwds) ==
    /\ ncalls < MaxCalls
    /\ Len(ctl) < MaxDepth
    /\ ncalls' = ncalls + 1
    /\ UNCHANGED cmp
    /\ UNCHANGED <<cacheVars, pageVars>>
    /\ LET h == HashFunc(cls, kwds) IN
         IF h.err
         THEN /\ calls' = [calls EXCEPT ![cls] = @ \cup
                              {[kwds |-> kwds, res |-> InvalidParameters]}]
              /\ UNCHANGED <<registry, objs, ctl>>
         ELSE IF Registered(cls, h.key) # {}
         THEN /\ calls' = [calls EXCEPT ![cls] = @ \cup
                   {[kwds |-> kwds, res |-> e.inst] : e \in Registered(cls, h.key)}]
              /\ UNCHANGED <<registry, objs, ctl>>
         ELSE LET inst == Len(objs) + 1 IN
              /\ registry' = IF RegisteredBeforeInit
                             THEN [registry EXCEPT ![cls] = @ \cup
                                      {[key |-> h.key, inst |-> inst]}]
                             ELSE registry
              /\ objs' = Append(objs, Unbuilt(cls))
              /\ ctl' = Append(ctl, [cls |-> cls, kwds |-> kwds,
                                     key |-> h.key, inst |-> inst])
              /\ UNCHANGED calls

\* init() of the innermost construction returns, and __new__ returns the
\* instance.
Leave ==
    /\ ctl # <<>>
    /\ LET f == ctl[Len(ctl)] IN
         /\ objs' = [objs EXCEPT ![f.inst] = EntityInit(f.cls, f.kwds)]
         /\ calls' = [calls EXCEPT ![f.cls] = @ \cup
                         {[kwds |-> f.kwds, res |-> f.inst]}]
         /\ registry' = IF RegisteredBeforeInit THEN registry
                        ELSE [registry EXCEPT ![f.cls] =
                                 (@ \ Registered(f.cls, f.key))
                                     \cup {[key |-> f.key, inst |-> f.inst]}]
    /\ ctl' = SubSeq(ctl, 1, Len(ctl) - 1)
    /\ UNCHANGED <<ncalls, cmp>>
    /\ UNCHANGED <<cacheVars, pageVars>>

EnterUser == \E k \in Kwds("User") : Enter("User", k)

EnterVenue == \E k \in Kwds("Venue") : Enter("Venue", k)

EnterPlaylist == \E k \in Kwds("Playlist") : Enter("Playlist", k)

InitBuild == RegIdle /\ CacheIdle /\ PageIdle

NextBuild == EnterUser \/ EnterVenue \/ EnterPlaylist \/ Leave

SpecBuild == InitBuild /\ [][NextBuild]_vars

\* C24 (checked under SpecBuild): an instance whose init() is running is in
\* the registry under its key, no second instance is under construction for
\* that key, and every construction of that key that returned meanwhile
\* returned the instance under construction.
RegisteredBeforeBuilt ==
    \A i \in DOMAIN ctl :
        /\ [key |-> ctl[i].key, inst |-> ctl[i].inst] \in registry[ctl[i].cls]
        /\ \A j \in DOMAIN ctl :
              (ctl[j].cls = ctl[i].cls /\ ctl[j].key = ctl[i].key) => j = i
        /\ \A a \in Returned(ctl[i].cls) :
              HashFunc(ctl[i].cls, a.kwds).key = ctl[i].key
                  => a.res = ctl[i].inst

\* While the init() of a User ran, a construction of the same name returned
\* that User.
BuiltFromInside ==
    \E i \in DOMAIN ctl : \E a \in Returned("User") :
        /\ ctl[i].cls = "User"
        /\ a.kwds = ctl[i].kwds /\ a.res = ctl[i].inst
        /\ objs[ctl[i].inst] = Unbuilt("User")

\* C25 (checked under SpecLife): init() has run once for every registered
\* key and never again: a construction leaves the fields of every instance
\* there is, and every cached property, as they were.
InitRunsOnce ==
    [][/\ Len(objs') = Cardinality(registry'["User"])
       /\ ncalls' = ncalls + 1 =>
             /\ \A i \in DOMAIN objs : objs'[i] = objs[i]
             /\ cache' = cache /\ ncomp' = ncomp /\ cval' = cval]_vars

\* A User was constructed with one real name and then again with another:
\* the same instance came back, with the first real name, and the playlists
\* cached in between.
RebuiltWithOtherArguments ==
    \E a, b \in calls["User"] :
        /\ a.res = b.res /\ a.kwds.val = PyVal(UserName)
        /\ a.kwds.other = "first" /\ b.kwds.other = "second"
        /\ objs[a.res].other = "first"
        /\ IsSet("playlists")

(***************************************************************************)
(* Further claims about the lazy list of past events (SpecPage).           *)
(***************************************************************************)
\* The number of elements an access asks the list for.
Demand(a) ==
    CASE a.op = "at" -> a.arg + 1
      [] a.op = "iterate" -> a.arg
      [] a.op = "as_list" -> MaxItems + 1
      [] OTHER -> 0

\* C26 (checked under SpecPage): the list is created with nothing fetched,
\* and an access fetches a page only if it asks for more elements than the
\* list has cached and than the pages before that page hold, all of which
\* are cached by then.
DemandDrivenFetching ==
    /\ reqs = <<>>
    /\ [][\A i \in (Len(reqs) + 1)..Len(reqs') :
             /\ Len(lst) < Demand(plast')
             /\ ItemsBefore(reqs'[i]) < Demand(plast')
             /\ ItemsBefore(reqs'[i]) <= Len(lst')]_vars

\* Of three pages of two elements, the first three elements were asked for
\* one by one: page 2 was fetched for the third, page 3 not at all.
ThirdElementFetchedPageTwo ==
    /\ pages.total = 3 /\ pages.size[1] = 2 /\ pages.bad = 0
    /\ plast.op = "at" /\ plast.arg = 2 /\ plast.before = 2
    /\ reqs = <<1, 2>>

\* C27: once a fetch of the generator has failed, every later access that
\* asks for more elements than the list has cached (a full materialization,
\* an iteration past them, a higher index) raises LastfmError again.
FailedNeverLooksComplete ==
    gen.pc = "raised" =>
        /\ plast.op = "as_list" => plast.res = "LastfmError"
        /\ (plast.op = "at" /\ plast.arg >= Len(lst)) =>
              plast.res = "LastfmError"
        /\ (plast.op = "iterate" /\ plast.arg > Len(lst)) =>
              plast.res = "LastfmError"

(***************************************************************************)
(* SpecChart: a cached property that nothing invalidates, whose body may   *)
(* return None, beside one that create_playlist invalidates.               *)
(***************************************************************************)
InitChart == InitMut

NextChart ==
    \/ User_recent_weekly_album_chart
    \/ User_playlists
    \/ User_create_playlist
    \/ SetSession

SpecChart == InitChart /\ [][NextChart]_vars

Pull ==
    /\ gen.pc \notin {"done", "raised"}
    /\ LET r == Fill(gen, lst, <<>>, Len(lst) + 1) IN
         IF Len(r.lst) > Len(lst)
         THEN Access("next", Len(lst), r, "ok", <<r.lst[Len(lst) + 1]>>)
         ELSE IF Fails(r)
         THEN Access("next", Len(lst), r, ErrorOf(r), <<>>)
         ELSE Access("next", Len(lst), r, "StopIteration", <<>>)

InitDrain == InitPage

NextDrain == Pull

SpecDrain == InitDrain /\ [][NextDrain]_vars /\ WF_vars(NextDrain)

\* The generator has ended, the list holds the elements of all N pages, and
\* max(N, 1) pages were fetched.
Drained ==
    /\ gen.pc = "done"
    /\ lst = ItemsOfPages(pages.total)
    /\ Len(reqs) = Max(pages.total, 1)

\* C29 (checked under SpecDrain): when no fetch fails, the full
\* materialization of a listing of N pages comes to its end: the generator
\* ends, and exactly max(N, 1) fetches were issued, then and ever after.
MaterializationTerminates == (pages.bad = 0) => <>[]Drained

\* Three pages of two elements were drained: the seventh resumption found
\* the generator at its end, after three fetches.
DrainedThreePages ==
    /\ pages.total = 3 /\ pages.size[1] = 2 /\ pages.bad = 0
    /\ plast.op = "next" /\ plast.res = "StopIteration" /\ plast.arg = 6
    /\ Drained

(***************************************************************************)
(* SpecRace: two callers in a multi-threaded host.  Each constructs the    *)
(* User "alice" or reads its playlists, step by step: the lookup in the    *)
(* registry and the insert, the test of the attribute and the store, are   *)
(* steps of their own, and the steps of the two callers interleave.  With  *)
(* ctl.locked the callers hold the lock of the registry (of the entity)    *)
(* from the first step of an operation to its last.                        *)
(***************************************************************************)
Threads == {1, 2}

Locks == {"registry", "entity"}

\* The lock an operation is to hold.
LockOf(op) == IF op = "construct" THEN "registry" ELSE "entity"

Alice == [has |-> TRUE, val |-> PyVal(UserName), other |-> "first"]

\* A lock that is free whoever holds it.
LockAlwaysFree(l) == TRUE

\* Nobody holds lock l.
LockFree(l) == ctl.owner[l] = 0

Thread(t, pc, op, res) ==
    [ctl EXCEPT !.t[t] = [pc |-> pc, op |-> op, res |-> res]]

\* A caller starts an operation, taking its lock if locks are in use.
Begin(t, op) ==
    /\ ctl.t[t].pc = "idle"
    /\ ncalls < MaxCalls
    /\ ncalls' = ncalls + 1
    /\ ctl.locked => LockFree(LockOf(op))
    /\ ctl' = [Thread(t, IF op = "construct" THEN "lookup" ELSE "test", op, 0)
                  EXCEPT !.owner[LockOf(op)] = IF ctl.locked THEN t ELSE @]
    /\ UNCHANGED <<registry, objs, calls, cmp>>
    /\ UNCHANGED <<cacheVars, pageVars>>

\* get_or_create, first step: the key is looked up in the registry.
Lookup(t) ==
    /\ ctl.t[t].pc = "lookup"
    /\ LET found == Registered("User", HashFunc("User", Alice).key) IN
         IF found # {}
         THEN ctl' = Thread(t, "return", "construct",
                            (CHOOSE e \in found : TRUE).inst)
         ELSE ctl' = Thread(t, "insert", "construct", 0)
    /\ UNCHANGED <<registry, objs, calls, ncalls, cmp>>
    /\ UNCHANGED <<cacheVars, pageVars>>

\* get_or_create, second step of a caller that found nothing: the instance
\* is built and stored under the key, in the place of what is there.
Insert(t) ==
    /\ ctl.t[t].pc = "insert"
    /\ LET key == HashFunc("User", Alice).key
           inst == Len(objs) + 1 IN
         /\ registry' = [registry EXCEPT !["User"] =
                (@ \ Registered("User", key))
                    \cup {[key |-> key, inst |-> inst]}]
         /\ objs' = Append(objs, EntityInit("User", Alice))
         /\ ctl' = Thread(t, "return", "construct", inst)
    /\ UNCHANGED <<calls, ncalls, cmp>>
    /\ UNCHANGED <<cacheVars, pageVars>>

\* A read of playlists, first step: the attribute is tested.
Test(t) ==
    /\ ctl.t[t].pc = "test"
    /\ ctl' = Thread(t, IF IsSet("playlists") THEN "return" ELSE "compute",
                     "read", 0)
    /\ UNCHANGED <<registry, objs, calls, ncalls, cmp>>
    /\ UNCHANGED <<cacheVars, pageVars>>

\* A read of playlists, second step of a caller that found None: the body
\* runs and its value is stored.
Compute(t) ==
    /\ ctl.t[t].pc = "compute"
    /\ cache' = [cache EXCEPT !["playlists"] = PyVal(srv["playlists"])]
    /\ ncomp' = [ncomp EXCEPT !["playlists"] = Bump(@)]
    /\ cval' = [cval EXCEPT !["playlists"] = PyVal(srv["playlists"])]
    /\ ctl' = Thread(t, "return", "read", 0)
    /\ UNCHANGED <<registry, objs, calls, ncalls, cmp>>
    /\ UNCHANGED <<srv, session, pending, held, last>>
    /\ UNCHANGED pageVars

\* The operation returns, and gives its lock back if it holds one.
Return(t) ==
    /\ ctl.t[t].pc = "return"
    /\ calls' = IF ctl.t[t].op = "construct"
                THEN [calls EXCEPT !["User"] = @ \cup
                         {[kwds |-> Alice, res |-> ctl.t[t].res]}]
                ELSE calls
    /\ ctl' = [Thread(t, "idle", "none", 0) EXCEPT
                  !.owner = [l \in Locks |->
                                IF ctl.owner[l] = t /\ l = LockOf(ctl.t[t].op)
                                THEN 0 ELSE ctl.owner[l]]]
    /\ UNCHANGED <<registry, objs, ncalls, cmp>>
    /\ UNCHANGED <<cacheVars, pageVars>>

Construction == \E t \in Threads : Begin(t, "construct")

FirstRead == \E t \in Threads : Begin(t, "read")

Looking == \E t \in Threads : Lookup(t)

Inserting == \E t \in Threads : Insert(t)

Testing == \E t \in Threads : Test(t)

Computing == \E t \in Threads : Compute(t)

Returning == \E t \in Threads : Return(t)

InitRace ==
    /\ registry = [c \in Classes |-> {}]
    /\ objs = <<>>
    /\ calls = [c \in Classes |-> {}]
    /\ ncalls = 0
    /\ cmp = <<>>
    /\ \E locked \in BOOLEAN :
          ctl = [locked |-> locked,
                 owner |-> [l \in Locks |-> 0],
                 t |-> [t \in Threads |->
                           [pc |-> "idle", op |-> "none", res |-> 0]]]
    /\ PageIdle
    /\ cache = [p \in Props |-> Unset]
    /\ srv = [p \in Props |-> 0]
    /\ session = FALSE
    /\ ncomp = [p \in Props |-> 0]
    /\ cval = [p \in Props |-> Unset]
    /\ pending = [p \in Props |-> "none"]
    /\ held = [p \in Props |-> 0]
    /\ last = Called("none", "", Returns(0, 0))

NextRace ==
    \/ Construction
    \/ FirstRead
    \/ Looking
    \/ Inserting
    \/ Testing
    \/ Computing
    \/ Returning

SpecRace == InitRace /\ [][NextRace]_vars

\* C30 (checked under SpecRace): when every operation runs under the lock
\* of its registry or of its entity, all the constructions of one key have
\* come to one instance, one instance only was ever built for it, and the
\* cached property was computed once at most, however the steps of the two
\* callers interleave.
LockedCallersAgree ==
    ctl.locked =>
        /\ \A a, b \in Returned("User") : a.res = b.res
        /\ Len(objs) <= 1
        /\ ncomp["playlists"] <= 1

\* Without the locks: the two callers were handed two different instances
\* for the one key, and the property was computed twice.
UnlockedCallersDisagree ==
    /\ ~ctl.locked
    /\ \E a, b \in Returned("User") : a.res # b.res
    /\ ncomp["playlists"] = 2

(***************************************************************************)
(* SpecScope: an entity whose name (User, Library) or id (Venue) may be    *)
(* missing.  Its paginated listing is asked for and then accessed, and the *)
(* events of a Venue are read.                                             *)
(***************************************************************************)
\* No listing was asked for yet.
NoGen == [pc |-> "none", pos |-> 0, idx |-> 0, total |-> 0]

\* What the caller of get_past_events (get_albums, ...) observed.
Created(res) == [NoAccess EXCEPT !.op = "create", !.res = res]

\* Venue.get_past_events (and past_events, which returns what it returns):
\* _default_params is called in the method itself, ahead of gen.
Venue_get_past_events ==
    /\ pages.kind = "Venue.get_past_events"
    /\ gen.pc = "none"
    /\ IF ScopeOk
       THEN gen' = FreshGen /\ plast' = Created("ok")
       ELSE gen' = gen /\ plast' = Created("InvalidParametersError")
    /\ UNCHANGED <<pages, lst, reqs, yielded>>
    /\ UNCHANGED <<regVars, cacheVars>>

\* User.get_past_events under depaginate: the call runs nothing of the body.
User_get_past_events ==
    /\ pages.kind = "User.get_past_events"
    /\ gen.pc = "none"
    /\ gen' = FreshGen
    /\ plast' = Created("ok")
    /\ UNCHANGED <<pages, lst, reqs, yielded>>
    /\ UNCHANGED <<regVars, cacheVars>>

\* Library.get_albums, get_artists, get_tracks under depaginate.
Library_get_listing ==
    /\ pages.kind \in LibraryKinds
    /\ gen.pc = "none"
    /\ gen' = FreshGen
    /\ plast' = Created("ok")
    /\ UNCHANGED <<pages, lst, reqs, yielded>>
    /\ UNCHANGED <<regVars, cacheVars>>

\* Venue.events: the default parameters, one fetch, the list of Events.
Venue_events ==
    /\ pages.kind = "Venue.get_past_events"
    /\ \E ok \in BOOLEAN :
          CachedProperty("events",
              IF ScopeOk THEN FetchData("events", ok)
              ELSE Raises("InvalidParametersError", 0))

\* An access to the listing that was asked for.
ListAccess == gen.pc # "none" /\ (IndexAccess \/ Iteration \/ AsList)

InitScope ==
    /\ RegIdle
    /\ pages \in {s \in Servers : s.bad = 0 /\ s.later = 0}
    /\ gen = NoGen
    /\ lst = <<>>
    /\ reqs = <<>>
    /\ yielded = 0
    /\ plast = NoAccess
    /\ cache = [p \in {"events"} |-> Unset]
    /\ srv = [p \in {"events"} |-> 0]
    /\ session = FALSE
    /\ ncomp = [p \in {"events"} |-> 0]
    /\ cval = [p \in {"events"} |-> Unset]
    /\ pending = [p \in {"events"} |-> "none"]
    /\ held = [p \in {"events"} |-> 0]
    /\ last = Called("none", "", Returns(0, 0))

NextScope ==
    \/ Venue_get_past_events
    \/ User_get_past_events
    \/ Library_get_listing
    \/ Venue_events
    \/ ListAccess

SpecScope == InitScope /\ [][NextScope]_vars

\* C31 (checked under SpecScope): of an entity whose name or id is missing
\* nothing is ever fetched; a read of events raises InvalidParametersError;
\* the paginated listing is created without an error, and the first access
\* that asks it for an element raises InvalidParametersError.
ScopePrecondition ==
    [][~ScopeOk =>
          /\ reqs' = <<>>
          /\ last'.op = "read" =>
                (last'.res = "InvalidParametersError" /\ last'.fetches = 0)
          /\ plast'.op = "create" => plast'.res = "ok"
          /\ (gen.pc = "start" /\ Demand(plast') > 0) =>
                plast'.res = "InvalidParametersError"]_vars

\* What does hold of such an entity: nothing is fetched, and the error, where
\* one is raised, is InvalidParametersError.
ScopeCheckedBeforeFetch ==
    [][~ScopeOk =>
          /\ reqs' = <<>>
          /\ last'.op = "read" =>
                (last'.res = "InvalidParametersError" /\ last'.fetches = 0)
          /\ plast'.res \in {"ok", "IndexError", "InvalidParametersError"}
          /\ (gen.pc = "start" /\ Demand(plast') > 0) =>
                plast'.res = "InvalidParametersError"]_vars

\* C32 (checked under SpecAuth): authenticated never raises
\* AuthenticationFailedError; without a session it returns False; and when
\* the Api returns the User of the session, it returns True if that User
\* has the name of this one and False if it has another.
AuthenticatedNeverRaises ==
    last.op = "authenticated" =>
        /\ last.res # "AuthenticationFailedError"
        /\ ~session => (last.res = "ok" /\ last.ret = PyVal(PyBool(FALSE)))
        /\ (session /\ last.res = "ok") =>
              last.ret = PyVal(PyBool(last.prop = UserName))

\* Without a session, authenticated returned False and fetched nothing.
NotAuthenticatedWithoutSession ==
    /\ last.op = "authenticated" /\ ~session
    /\ last.res = "ok" /\ last.ret = PyVal(0) /\ last.fetches = 0
====
